---- MODULE Spec2Model ----
(***************************************************************************)
(* Model of the federation side of gathio.  From src/src/routes.js: the    *)
(* POST /activitypub/inbox handler, the HTTP-signature check it performs   *)
(* and the follower state that processInbox mutates (Spec, PairSpec); the  *)
(* handlers that delete events and event groups or store comments, with    *)
(* the broadcasts they start (CrudSpec, CrudFairSpec).  From the page      *)
(* routes: GET /:eventID and GET /group/:eventGroupID (PageSpec).          *)
(*                                                                         *)
(* Texts are sequences of tokens.  The tokens "," "=" the double quote and *)
(* " " stand for those characters; every other token is a run of           *)
(* characters that holds none of the four.  The string operations of the   *)
(* handler (split, replace, join, template literals) are modelled on       *)
(* token sequences as JavaScript performs them on characters.              *)
(***************************************************************************)
EXTENDS Integers, Sequences, FiniteSets, TLC

\* Number of inbox requests served one after the other in a run.
MaxReq == 2

VARIABLES
    is_federated,   \* config.general.is_federated
    followers,      \* local actor -> list of remote actor URLs following it
    inbox,          \* slot -> the inbox request handled in that slot
    handled,        \* number of requests received so far
    events,         \* event id -> the stored event document
    groups,         \* event group id -> the stored event group document
    op,             \* the handler run in progress, with its position
    broadcasts,     \* <<entity, object>> -> broadcast started by that run
    started,        \* number of handler runs started so far
    page,           \* the GET request being answered
    rsvp            \* slot -> the attendee request handled in that slot

vars == <<is_federated, followers, inbox, handled,
          events, groups, op, broadcasts, started, page, rsvp>>

\* The variables of the store, its handlers and the pages.
crud == <<events, groups, op, broadcasts, started, page, rsvp>>

-----------------------------------------------------------------------------
(* JavaScript strings and objects                                          *)

Quote == "\""

\* The value `undefined`; no text of the model is equal to it.
Undefined == <<"<undefined>">>

\* String.prototype.split with a one-character separator.
RECURSIVE Split(_, _)
Split(text, sep) ==
    IF \A i \in 1..Len(text) : text[i] # sep
    THEN <<text>>
    ELSE LET i == CHOOSE i \in 1..Len(text) :
                    text[i] = sep /\ \A j \in 1..(i - 1) : text[j] # sep
         IN  <<SubSeq(text, 1, i - 1)>> \o Split(SubSeq(text, i + 1, Len(text)), sep)

\* Array.prototype.join.
RECURSIVE Join(_, _)
Join(texts, sep) ==
    IF Len(texts) = 0 THEN <<>>
    ELSE IF Len(texts) = 1 THEN texts[1]
    ELSE texts[1] \o <<sep>> \o Join(Tail(texts), sep)

\* value.replace(/^"/g, "").replace(/"$/g, "")
StripQuotes(value) ==
    LET a == IF Len(value) > 0 /\ value[1] = Quote THEN Tail(value) ELSE value
    IN  IF Len(a) > 0 /\ a[Len(a)] = Quote THEN SubSeq(a, 1, Len(a) - 1) ELSE a

\* obj[key] of a JavaScript object: undefined for a key that was never set.
Get(obj, key) == IF key \in DOMAIN obj THEN obj[key] ELSE Undefined

\* `${value}` in a template literal.
TemplateString(value) == IF value = Undefined THEN <<"undefined">> ELSE value

\* The pairs of the Signature header: split(",") then split("=") of each
\* pair, each piece stripped of a leading and a trailing quote.
SplitPairs(signature) ==
    LET pairs == Split(signature, ",")
    IN  [i \in 1..Len(pairs) |->
            LET pieces == Split(pairs[i], "=")
            IN  [j \in 1..Len(pieces) |-> StripQuotes(pieces[j])]]

\* reduce((acc, el) => { acc[el[0]] = el[1]; return acc }, {})
ParseSignature(signature) ==
    LET els == SplitPairs(signature)
        keys == {els[i][1] : i \in DOMAIN els}
    IN  [k \in keys |->
            LET last == CHOOSE i \in DOMAIN els :
                            els[i][1] = k /\ \A j \in DOMAIN els : els[j][1] = k => j <= i
            IN  IF Len(els[last]) >= 2 THEN els[last][2] ELSE Undefined]

-----------------------------------------------------------------------------
(* Keys, signatures and base64                                             *)

\* RSA key pairs of the remote actors; a key's name is also its PEM text.
Keys == {"K1", "K2"}

\* The signature bytes a sender computes with the private key `key` over `msg`.
Sign(key, msg) == [key |-> key, msg |-> msg]

\* Base64 text of signature bytes, followed by `pad` padding characters.
\* The text holds no space: a space of the bytes is written "+".
Base64Encode(bytes, pad) ==
    <<bytes.key>>
    \o [i \in 1..Len(bytes.msg) |-> IF bytes.msg[i] = " " THEN "+" ELSE bytes.msg[i]]
    \o [i \in 1..pad |-> "="]

\* Buffer.from(text, "base64"): the decoder stops at padding, so a text
\* decodes to the same bytes with or without its trailing "=".
RECURSIVE Base64Prefix(_)
Base64Prefix(text) ==
    IF Len(text) = 0 \/ text[1] = "=" THEN <<>>
    ELSE <<text[1]>> \o Base64Prefix(Tail(text))

Base64Decode(text) ==
    LET t == Base64Prefix(text)
    IN  IF Len(t) = 0 THEN Sign("", <<>>)
        ELSE Sign(t[1], [i \in 1..(Len(t) - 1) |->
                            IF t[i + 1] = "+" THEN " " ELSE t[i + 1]])

-----------------------------------------------------------------------------
(* HTTP signatures as the sender computes them                             *)

\* method.toLowerCase() of the request line.
Lower(method) == IF method = "POST" THEN "post" ELSE method

\* The string a sender signs: one line per signed header name, in order.
SigningString(names, method, path, headers) ==
    Join([i \in 1..Len(names) |->
            IF names[i] = "(request-target)"
            THEN <<"(request-target)", ": ", Lower(method), " ">> \o path
            ELSE <<names[i], ": ">> \o headers[names[i]]],
         "\n")

\* One key="value" pair of a Signature header.
Pair(key, value) == <<key, "=", Quote>> \o value \o <<Quote>>

\* The Signature header a sender writes from its fields, in the usual order.
FormatSignature(fields, present) ==
    LET order == <<"keyId", "headers", "signature">>
        kept  == SelectSeq(order, LAMBDA k : k \in present)
    IN  Join([i \in 1..Len(kept) |-> Pair(kept[i], fields[kept[i]])], ",")

-----------------------------------------------------------------------------
(* The requests that reach the inbox route                                 *)

LocalActors == {"E1", "E2"}

\* URL of the remote actor that owns a key.
ActorOf(key) == IF key = "K1" THEN "https://remote/a1" ELSE "https://remote/a2"

\* keyId values: a plain URL, and a URL whose query string holds "=".
KeyIds == { <<"https://remote/actor">>, <<"https://remote/actor?id", "=", "1">> }

\* headers values a sender lists.
HeaderLists == { <<"(request-target)", "host">>, <<"host", "date">> }

\* Paths the router hands to the "/activitypub/inbox" route: express.Router()
\* is created without options, so a trailing slash matches as well.
RoutedPaths == { <<"/activitypub/inbox">>, <<"/activitypub/inbox", "/">> }

\* Base64 padding of a signature: a 256-byte signature (2048-bit key) ends
\* in "==", a 512-byte one (4096-bit key) in "=".
PadOf(key) == IF key = "K1" THEN 2 ELSE 1

\* What happened to the request between signing and arrival: nothing, the
\* Signature header removed, one of its pairs removed (named by its key),
\* the value of the host or date header changed, the signature replaced.
Tampers == {"none", "nosig", "keyId", "headers", "signature",
            "host", "date", "garbage"}

\* Activities of the request body.
Activities ==
    {[type |-> t, object |-> e] : t \in {"Follow", "Undo"}, e \in LocalActors}
    \cup {[type |-> "Like", object |-> "E1"]}

\* The request as it arrives, with what the sender did kept under `sent`.
MakeRequest(key, keyId, names, path, tamper, activity) ==
    LET original == [host |-> <<"h1">>, date |-> <<"d1">>]
        signed   == SigningString(names, "POST", path, original)
        fields   == [keyId     |-> keyId,
                     headers   |-> Join([i \in 1..Len(names) |-> <<names[i]>>], " "),
                     signature |-> IF tamper = "garbage" THEN <<"zz">>
                                   ELSE Base64Encode(Sign(key, signed), PadOf(key))]
        present  == {k \in {"keyId", "headers", "signature"} : tamper # k}
    IN  [method  |-> "POST",
         path    |-> path,
         headers |-> [signature |-> IF tamper = "nosig" THEN Undefined
                                    ELSE FormatSignature(fields, present),
                      host      |-> IF tamper = "host" THEN <<"h2">> ELSE original.host,
                      date      |-> IF tamper = "date" THEN <<"d2">> ELSE original.date],
         body    |-> [type |-> activity.type, actor |-> ActorOf(key),
                      object |-> activity.object],
         sent    |-> [key |-> key, names |-> names, fields |-> fields,
                      present |-> present, signed |-> signed, tamper |-> tamper]]

Requests ==
    {MakeRequest(k, id, names, path, tamper, activity) :
        k \in Keys, id \in KeyIds, names \in HeaderLists,
        path \in RoutedPaths, tamper \in Tampers, activity \in Activities}

\* req.get(name): the value of a request header, undefined when absent.
ReqGet(req, name) ==
    IF Len(name) = 1 /\ name[1] \in DOMAIN req.headers
    THEN req.headers[name[1]]
    ELSE Undefined

-----------------------------------------------------------------------------
(* What the fetch of the keyId URL hands to its callback                   *)

\* error: the fetch failed, actor is undefined; html: a body that is not
\* JSON; null: the JSON text null; nokey: a JSON object without publicKey;
\* nopem: a publicKey without publicKeyPem; actor: an actor document.
Doc(kind, pem) == [kind |-> kind, pem |-> pem]

FetchError == Doc("error", "")

Docs ==
    {Doc(kind, "") : kind \in {"error", "html", "null", "nokey", "nopem"}}
    \cup {Doc("actor", k) : k \in Keys}

-----------------------------------------------------------------------------
(* The inbox route handler                                                 *)

\* The two requests the model can hold at once.
Slots == {1, 2}

\* const isFederated = config.general.is_federated || true
isFederated == is_federated \/ TRUE

\* Mutant of SignatureMissing: the check for a missing header is gone.
SignatureNeverMissing(signature) == FALSE

\* if (!signature): a header that is absent or empty.
SignatureMissing(signature) == signature = Undefined \/ signature = <<>>

\* request() calls back with an error, and no body, for a url that is
\* undefined or empty.
NoUrl(url) == url = Undefined \/ url = <<>>

\* Mutant of ActorParseThrows: only a body that is no JSON is caught; a
\* failed fetch goes on to the verification with an empty key.
ActorParseThrowsOnText(actor) == actor.kind = "html"

\* JSON.parse(actor).publicKey throws: actor undefined, not JSON, or null.
ActorParseThrows(actor) == actor.kind \in {"error", "html", "null"}

\* let publicKey = ""; set to publicKeyPem when the document has a publicKey.
PublicKey(actor) ==
    IF actor.kind = "actor" THEN <<actor.pem>>
    ELSE IF actor.kind = "nopem" THEN Undefined
    ELSE <<>>

\* The comparison string the handler rebuilds from the headers field.
ComparisonString(signature_header, req) ==
    LET names == Split(Get(signature_header, <<"headers">>), " ")
    IN  Join([i \in 1..Len(names) |->
                IF names[i] = <<"(request-target)">>
                THEN <<"(request-target)", ": ", "post", " ", "/activitypub/inbox">>
                ELSE names[i] \o <<": ">> \o TemplateString(ReqGet(req, names[i]))],
             "\n")

\* Mutant of Verify: the comparison string is never fed to the verifier, so
\* any signature made with the key passes.
VerifyWithoutData(publicKey, signatureBuf, data) ==
    IF Len(publicKey) # 1 \/ publicKey[1] \notin Keys THEN "threw"
    ELSE IF signatureBuf.key = publicKey[1] THEN "true"
    ELSE "false"

\* Mutant of Verify: a signed string seen in a finished request is refused.
VerifyOnce(publicKey, signatureBuf, data) ==
    IF Len(publicKey) # 1 \/ publicKey[1] \notin Keys THEN "threw"
    ELSE IF \E t \in DOMAIN inbox :
                inbox[t].pc = "done" /\ inbox[t].comparison_string = data
    THEN "false"
    ELSE IF signatureBuf = Sign(publicKey[1], data) THEN "true"
    ELSE "false"

\* verifier.verify(publicKeyBuf, signatureBuf) after verifier.update(data):
\* throws for a key that is no PEM text, else tells whether the bytes are the
\* signature of data under the private key of publicKey.
Verify(publicKey, signatureBuf, data) ==
    IF Len(publicKey) # 1 \/ publicKey[1] \notin Keys THEN "threw"
    ELSE IF signatureBuf = Sign(publicKey[1], data) THEN "true"
    ELSE "false"

\* Mutant of Accepts: only an exception keeps the request from processInbox.
AcceptsUnlessThrown(result) == result # "threw"

\* if (result): the branch that hands the request to processInbox.
Accepts(result) == result = "true"

\* Status of the response to an actor that could not be parsed.
ActorParseStatus == 500

\* Status of the responses "No signature provided." and "Signature could
\* not be verified".
SignatureStatus == 401

\* The entries of a list.
Range(list) == {list[i] : i \in 1..Len(list)}

\* A follower list with the actor added, whether or not it is there already.
AddFollower(list, actor) == Append(list, actor)

\* A Follow adds the sender to the list only when the list lacks it.
HandleFollow(list, actor) ==
    IF actor \in Range(list) THEN list ELSE Append(list, actor)

\* An Undo of a Follow takes the sender off the list.
HandleUndo(list, actor) == SelectSeq(list, LAMBDA f : f # actor)

\* processInbox: the follower lists after a verified activity.
processInbox(fol, body) ==
    IF body.type = "Follow"
    THEN [fol EXCEPT ![body.object] = HandleFollow(@, body.actor)]
    ELSE IF body.type = "Undo"
    THEN [fol EXCEPT ![body.object] = HandleUndo(@, body.actor)]
    ELSE fol

\* processInbox: the status it answers an interpreted activity with.
ProcessStatus == 200

\* A slot before its request arrives.
Idle ==
    [pc |-> "idle", req |-> <<>>, signature_header |-> <<>>, url |-> <<>>,
     fetches |-> 0, actor |-> Doc("none", ""), served |-> Doc("none", ""),
     comparison_string |-> <<>>, result |-> "none", status |-> 0, sent |-> 0,
     processed |-> FALSE, before |-> <<>>]

\* res.status(code).send(...) or res.sendStatus(code), ending the handler.
Respond(c, code) ==
    [c EXCEPT !.pc = "done", !.status = code, !.sent = c.sent + 1]

\* An exception thrown outside every try block of the callback.
Throw(c) == [c EXCEPT !.pc = "crashed"]

\* The handler up to the call of request(): lines 1433-1459.
OnRequest(req, fol) ==
    LET c == [Idle EXCEPT !.req = req, !.before = fol]
        signature == ReqGet(req, <<"signature">>)
    IN  IF ~isFederated THEN Respond(c, 404)
        ELSE IF SignatureMissing(signature) THEN Respond(c, SignatureStatus)
        ELSE LET signature_header == ParseSignature(signature)
             IN  [c EXCEPT !.pc = "fetching",
                           !.signature_header = signature_header,
                           !.url = Get(signature_header, <<"keyId">>),
                           !.fetches = c.fetches + 1]

\* The callback of request(): lines 1460-1503.
OnActor(c, actor) ==
    LET d == [c EXCEPT !.actor = actor]
        headers == Get(c.signature_header, <<"headers">>)
        signature == Get(c.signature_header, <<"signature">>)
        publicKey == PublicKey(actor)
    IN  IF ActorParseThrows(actor) THEN Respond(d, ActorParseStatus)
        ELSE IF headers = Undefined THEN Throw(d)
        ELSE LET comparison_string == ComparisonString(c.signature_header, c.req)
                 e == [d EXCEPT !.comparison_string = comparison_string]
             IN  IF publicKey = Undefined \/ signature = Undefined THEN Throw(e)
                 ELSE LET result == Verify(publicKey, Base64Decode(signature),
                                           comparison_string)
                          f == [e EXCEPT !.result = result]
                      IN  IF result = "threw" THEN Respond(f, SignatureStatus)
                          ELSE IF Accepts(result)
                          THEN Respond([f EXCEPT !.processed = TRUE], ProcessStatus)
                          ELSE Respond(f, SignatureStatus)

\* A request arrives in slot s and the handler runs up to its fetch.
Arrive(s, req) ==
    /\ inbox' = [inbox EXCEPT ![s] = OnRequest(req, followers)]
    /\ handled' = handled + 1
    /\ UNCHANGED <<is_federated, followers, crud>>

\* Requests are served one after the other in slot 1.
Receive ==
    /\ handled < MaxReq
    /\ inbox[1].pc = "idle"
    /\ \E req \in Requests : Arrive(1, req)

\* What a fetch of url can call back with when the document at the keyId
\* the sender wrote is `served`: a fetch of any other url may get anything.
Fetched(c, served) ==
    IF NoUrl(c.url) THEN {FetchError}
    ELSE IF c.url = c.req.sent.fields.keyId THEN {served}
    ELSE Docs

\* The fetch of slot s calls back.
FetchCallback(s) ==
    /\ inbox[s].pc = "fetching"
    /\ \E served \in Docs :
       \E actor \in Fetched(inbox[s], served) :
        LET c == inbox[s]
            d == OnActor([c EXCEPT !.served = served], actor)
        IN  /\ inbox' = [inbox EXCEPT ![s] = d]
            /\ followers' = IF d.processed
                            THEN processInbox(followers, c.req.body)
                            ELSE followers
    /\ UNCHANGED <<is_federated, handled, crud>>

\* The exchange of slot s is over and the slot is free again.
Close(s) ==
    /\ inbox[s].pc \in {"done", "crashed"}
    /\ inbox' = [inbox EXCEPT ![s] = Idle]
    /\ UNCHANGED <<is_federated, followers, handled, crud>>

-----------------------------------------------------------------------------
(* The documents of the store                                              *)

\* Event groups of the store.
Groups == {"G1"}

\* Edit tokens: each event and each group has its own.
Tokens == {"t1", "t2", "t3"}

\* The edit token an entity was created with.
EditTokenOf(id) == IF id = "E1" THEN "t1" ELSE IF id = "E2" THEN "t2" ELSE "t3"

\* What an event holds as activityPubActor or activityPubEvent: the JSON
\* text written at creation, a text that is no JSON, or nothing.
Snapshots == {"json", "garbage", "absent"}

\* An event document: `expired` says that its end lies before too_old, and
\* `image` that it has a cover image (E1 has one).
StoredEvent(id, actor, object, expired) ==
    [exists |-> TRUE, editToken |-> EditTokenOf(id),
     activityPubActor |-> actor, activityPubEvent |-> object,
     expired |-> expired, eventGroup |-> "G1", comments |-> 0,
     firstLoad |-> TRUE, image |-> id = "E1",
     attendees |-> <<>>, hasMaxAttendees |-> id = "E1", maxAttendees |-> 1]

\* An event group document.
StoredGroup(id) ==
    [exists |-> TRUE, editToken |-> EditTokenOf(id), firstLoad |-> TRUE]

\* No handler is running.
NoOp ==
    [kind |-> "none", pc |-> "idle", id |-> "", token |-> "",
     status |-> 0, sent |-> 0, saved |-> FALSE, removed |-> {},
     pending |-> {},
     job |-> [e \in LocalActors |-> "none"]]

\* No broadcast has been started.
NoBroadcasts == [k \in {} |-> NoOp]

\* No GET request is being answered.
NoPage == [pc |-> "idle"]

\* No attendee request is being handled.
NoRsvp ==
    [pc |-> "idle", kind |-> "none", id |-> "", removalPassword |-> 0,
     attendeeNumber |-> 0, attendeeID |-> 0, userAgent |-> <<>>,
     status |-> 0]

\* The store with two events as they are created, and nothing running.
AtRest ==
    /\ events = [e \in LocalActors |-> StoredEvent(e, "json", "json", FALSE)]
    /\ groups = [g \in Groups |-> StoredGroup(g)]
    /\ op = NoOp
    /\ broadcasts = NoBroadcasts
    /\ started = 0
    /\ page = NoPage
    /\ rsvp = [s \in Slots |-> NoRsvp]

Init ==
    /\ is_federated \in BOOLEAN
    /\ followers = [a \in LocalActors |-> <<>>]
    /\ inbox = [s \in Slots |-> Idle]
    /\ handled = 0
    /\ AtRest

Next == Receive \/ FetchCallback(1) \/ Close(1)

Spec == Init /\ [][Next]_vars

\* The requests sent twice: those that carry a Follow of E1.
PairRequests ==
    {req \in Requests : req.body.type = "Follow" /\ req.body.object = "E1"}

\* Two requests in flight at once, the second a copy of the first: the same
\* headers, body, method and path. Each fetch calls back on its own.
ReceiveSame(s) ==
    /\ inbox[s].pc = "idle"
    /\ handled < Cardinality(Slots)
    /\ \E req \in (IF \E t \in Slots : inbox[t].pc # "idle"
                   THEN {inbox[t].req : t \in {u \in Slots : inbox[u].pc # "idle"}}
                   ELSE PairRequests) :
          Arrive(s, req)

PairNext == \E s \in Slots : ReceiveSame(s) \/ FetchCallback(s)

PairSpec == Init /\ [][PairNext]_vars

-----------------------------------------------------------------------------
(* Properties of the inbox handler                                         *)

AllKeys == {"keyId", "headers", "signature"}

\* The exchange of a slot has ended, with a response or with an exception.
Over(c) == c.pc \in {"done", "crashed"}

\* The fetch of the slot has called back.
CalledBack(c) == c.actor.kind # "none"

\* The fetch failed or its body is no actor document.
NoActor(c) == c.actor.kind \in {"error", "html", "null"}

\* The request of the slot carries a Signature header.
Signed(c) == c.pc # "idle" /\ c.req.headers.signature # Undefined

\* C1: processInbox is called for a request only after the RSA-SHA256
\* verification of that same request returned true; a request with no
\* Signature header, a failed fetch, an unparsable actor, a verification that
\* returned false or threw is never handed to processInbox.
C1_ProcessedOnlyIfVerified ==
    \A s \in Slots :
        LET c == inbox[s]
        IN  /\ c.processed =>
                /\ c.result = "true"
                /\ c.fetches = 1
                /\ Signed(c)
                /\ c.actor.kind = "actor"
                /\ Base64Decode(Get(c.signature_header, <<"signature">>))
                     = Sign(c.actor.pem, c.comparison_string)
            /\ c.pc # "idle" /\ ~Signed(c) => ~c.processed
            /\ NoActor(c) => ~c.processed
            /\ c.result \in {"false", "threw"} => ~c.processed

C1_Witness ==
    \E s \in Slots :
        inbox[s].processed /\ inbox[s].result = "true" /\ inbox[s].status = 200

\* The signature of the slot's request does not verify against the public
\* key that was fetched for it.
WrongSignature(c) ==
    /\ Over(c)
    /\ Signed(c)
    /\ c.req.sent.present = AllKeys
    /\ c.actor.kind = "actor"
    /\ Base64Decode(c.req.sent.fields.signature)
         # Sign(c.actor.pem, ComparisonString(c.signature_header, c.req))

\* C2: a request whose Signature header holds keyId, headers and signature
\* but whose signature does not verify against the fetched public key is
\* answered 401, and every follower list is as it was when the request came.
C2_WrongSignatureRejected ==
    \A s \in Slots :
        WrongSignature(inbox[s]) =>
            /\ inbox[s].pc = "done"
            /\ inbox[s].status = 401
            /\ inbox[s].sent = 1
            /\ ~inbox[s].processed
            /\ followers = inbox[s].before

C2_Witness ==
    \E s \in Slots :
        /\ WrongSignature(inbox[s])
        /\ inbox[s].req.sent.tamper = "host"
        /\ inbox[s].actor.pem = inbox[s].req.sent.key
        /\ inbox[s].status = 401
        /\ \E a \in LocalActors : followers[a] # <<>>

\* C3: a request with no Signature header is answered 401 before any fetch
\* of a key is started and without a call of processInbox.
C3_MissingSignatureRejected ==
    \A s \in Slots :
        LET c == inbox[s]
        IN  c.pc # "idle" /\ ~Signed(c) =>
                /\ c.pc = "done"
                /\ c.status = 401
                /\ c.sent = 1
                /\ c.fetches = 0
                /\ ~CalledBack(c)
                /\ ~c.processed

C3_Witness ==
    \E s \in Slots :
        /\ inbox[s].pc = "done"
        /\ ~Signed(inbox[s])
        /\ inbox[s].status = 401

\* C4: a request whose Signature header is present but lacks keyId, headers
\* or signature is rejected with a 401 response: it is never processed and
\* never ends without a response.
C4_MalformedSignatureRejected ==
    \A s \in Slots :
        LET c == inbox[s]
        IN  Over(c) /\ Signed(c) /\ c.req.sent.present # AllKeys =>
                /\ c.pc = "done"
                /\ c.status = 401
                /\ c.sent = 1
                /\ ~c.processed

\* C5: every request ends with exactly one response: no exception raised
\* while fetching the key, rebuilding the signing string or verifying escapes
\* the handler, and each such exception is answered as an invalid signature.
C5_AlwaysOneResponse ==
    \A s \in Slots :
        LET c == inbox[s]
        IN  /\ c.pc # "crashed"
            /\ c.sent <= 1
            /\ c.pc = "done" => c.sent = 1
            /\ c.result = "threw" => c.status = 401

\* C6: a failed fetch or a body that is no actor document is answered 500
\* and not processed; 401 answers only a missing or invalid signature, and a
\* 200-class status only a request that was verified and handed to processing.
C6_StatusCodes ==
    \A s \in Slots :
        LET c == inbox[s]
        IN  /\ NoActor(c) =>
                c.pc = "done" /\ c.status = 500 /\ c.sent = 1 /\ ~c.processed
            /\ c.status = 401 =>
                \/ ~Signed(c) /\ c.fetches = 0
                \/ c.result \in {"false", "threw"}
            /\ c.status \in 200..299 => c.result = "true" /\ c.processed
            /\ c.status = 500 => NoActor(c)

C6_Witness ==
    \E s \in Slots :
        /\ inbox[s].pc = "done"
        /\ inbox[s].actor.kind = "html"
        /\ inbox[s].req.sent.tamper = "none"
        /\ inbox[s].status = 500

\* The request of the slot has a complete Signature header and the document
\* at its keyId holds the public key of its sender.
WellFormedAndReachable(c) ==
    /\ Over(c)
    /\ Signed(c)
    /\ c.req.sent.present = AllKeys
    /\ c.served = Doc("actor", c.req.sent.key)

\* The signature of the request was made with the sender's private key over
\* the string the handler rebuilds for the request.
SignedOverRebuilt(c) ==
    Base64Decode(c.req.sent.fields.signature)
        = Sign(c.req.sent.key, ComparisonString(c.signature_header, c.req))

\* C7: for a well-formed Signature header and a reachable actor document
\* with the sender's public key, the request is accepted exactly when its
\* signature was made with the matching private key over the string the
\* handler rebuilds; a header named in the headers field whose value was
\* changed after signing makes the handler reject.
C7_AcceptsIffSigned ==
    \A s \in Slots :
        LET c == inbox[s]
        IN  WellFormedAndReachable(c) =>
                /\ c.processed <=> SignedOverRebuilt(c)
                /\ \A h \in {"host", "date"} :
                     (c.req.sent.tamper = h
                        /\ \E i \in 1..Len(c.req.sent.names) : c.req.sent.names[i] = h)
                     => ~c.processed

\* C8: the rebuilt signing string has one line per name of the headers
\* field, in order, joined by newlines: "(request-target): " with the
\* lower-cased method and the path of the request, and "h: " with the value of
\* header h of the request for every other name h.
C8_ComparisonString ==
    \A s \in Slots :
        LET c == inbox[s]
        IN  c.comparison_string # <<>> /\ c.req.sent.present = AllKeys =>
                c.comparison_string
                    = SigningString(c.req.sent.names, c.req.method, c.req.path,
                                    c.req.headers)

\* C9: the parsed Signature header binds each key to the complete text
\* between its quotes, also for a value that holds the character "=".
C9_ParseBindsWholeValue ==
    \A s \in Slots :
        LET c == inbox[s]
        IN  c.fetches > 0 =>
                \A k \in c.req.sent.present :
                    Get(c.signature_header, <<k>>) = c.req.sent.fields[k]

NoDuplicates(list) ==
    \A i, j \in 1..Len(list) : list[i] = list[j] => i = j

\* The slot has interpreted an activity of the given type whose sender was
\* (member = TRUE) or was not on the follower list of its object before.
Interpreted(c, type, member) ==
    /\ c.pc = "done"
    /\ c.processed
    /\ c.req.body.type = type
    /\ (c.req.body.actor \in Range(c.before[c.req.body.object])) = member

-----------------------------------------------------------------------------
(* The broadcaster                                                         *)

\* Number of handler runs (deleteevent, deleteeventgroup, comment, reply,
\* scheduled job) in a run.
MaxOps == 2

\* How the delivery to one follower's inbox ends: "failed" is a timeout, a
\* refused connection or an answer other than 2xx, which the broadcaster
\* does not tell apart.
Outcomes == {"sent", "failed"}

\* A broadcast at its start: one delivery pending for each follower.
NewBroadcast(activity, to) ==
    [activity |-> activity, to |-> to,
     status   |-> [f \in Range(to) |-> "pending"],
     attempts |-> [f \in Range(to) |-> 0],
     reported |-> FALSE, report |-> [sent |-> 0, failed |-> 0]]

\* broadcastDeleteMessage(apObject, followers, eventID, callback), with the
\* broadcast filed under the entity and the object it is about.
broadcastDeleteMessage(bs, key, to) == (key :> NewBroadcast("Delete", to)) @@ bs

\* broadcastCreateMessage(apObject, followers, eventID).
broadcastCreateMessage(bs, key, to) == (key :> NewBroadcast("Create", to)) @@ bs

\* Some delivery of the broadcast has ended.
SomeResolved(b) == \E f \in Range(b.to) : b.status[f] # "pending"

\* Every delivery of the broadcast has ended, well or not.
AllResolved(b) == \A f \in Range(b.to) : b.status[f] # "pending"

\* The number of followers whose delivery ended with one of `outcomes`.
Count(b, outcomes) == Cardinality({f \in Range(b.to) : b.status[f] \in outcomes})

\* A report that counts every follower as reached.
AllSent(b) == [sent |-> Len(b.to), failed |-> 0]

\* What the broadcast reports to its caller.
DeliveryReport(b) ==
    [sent |-> Count(b, {"sent"}), failed |-> Count(b, {"failed"})]

\* The broadcast with its outcome reported.
Reported(b) == [b EXCEPT !.reported = TRUE, !.report = DeliveryReport(b)]

-----------------------------------------------------------------------------
(* The handlers that delete and the handlers that comment                  *)

\* What the handlers leave alone.
inboxSide == <<is_federated, followers, inbox, handled, page, rsvp>>

\* res.send(text) answers with the default status.
SendStatus == 200

\* res.writeHead(302, {Location: ...}); res.end().
RedirectStatus == 302

\* The handler answers and is over.
Send(c, code) == [c EXCEPT !.pc = "done", !.status = code, !.sent = @ + 1]

\* JSON.parse of a stored snapshot throws unless the text is JSON.
JsonParseThrows(text) == text # "json"

\* A stored snapshot as a condition: an absent field is undefined.
Truthy(text) == text # "absent"

\* A handler starts when none is running.
Begin ==
    /\ op.kind = "none"
    /\ started < MaxOps
    /\ started' = started + 1

\* deleteevent, had it issued the removal along with the broadcast.
RemoveAtOnce(c) == [c EXCEPT !.pc = "deleteOne"]

\* deleteevent hands the removal to the broadcast as its callback.
AwaitBroadcast(c) == [c EXCEPT !.pc = "broadcasting"]

\* deleteevent, had it not compared the tokens.
TokenIgnored(event, token) == TRUE

\* if (event.editToken === submittedEditToken).
TokenMatches(event, token) == event.editToken = token

\* POST /deleteevent/:eventID/:editToken up to the broadcast: a missing
\* event, a wrong token and a snapshot that does not parse end it.
DeleteEvent(e, token) ==
    LET event == events[e]
        c     == [NoOp EXCEPT !.kind = "deleteevent", !.id = e, !.token = token]
    IN  /\ Begin
        /\ IF ~event.exists \/ ~TokenMatches(event, token)
              \/ JsonParseThrows(event.activityPubActor)
           THEN /\ op' = Send(c, SendStatus)
                /\ UNCHANGED broadcasts
           ELSE /\ op' = AwaitBroadcast(c)
                /\ broadcasts' = broadcastDeleteMessage(broadcasts,
                                      <<e, "actor">>, followers[e])
        /\ UNCHANGED <<events, groups, inboxSide>>

\* The callback deleteevent gave to the broadcast: Event.deleteOne is issued.
DeleteEventCallback(c) == [c EXCEPT !.pc = "deleteOne"]

\* A response method of res is called when the handler has answered
\* already: the status of the answer stays what it was.
SendAgain(c) == [c EXCEPT !.sent = @ + 1]

\* What is left to do after the redirect of deleteevent: the unlink of the
\* image when the event has one, the email when some are to be sent.
Aftermath(event, mails) ==
    (IF event.image THEN {"unlink"} ELSE {})
        \cup (IF mails THEN {"mail"} ELSE {})

\* Event.deleteOne of deleteevent ends.  With err the callback answers with
\* the error and the catch of the promise answers again.  Otherwise the
\* event is gone, fs.unlink is called for its image, the redirect is sent
\* and (mails: sendEmails is set and an attendee left an address) the
\* emails are sent.
DeleteOneResult(err, mails) ==
    /\ op.kind = "deleteevent"
    /\ op.pc = "deleteOne"
    /\ IF err
       THEN /\ op' = SendAgain(Send(op, SendStatus))
            /\ UNCHANGED events
       ELSE /\ op' = [Send(op, RedirectStatus) EXCEPT
                         !.removed = {op.id},
                         !.pending = Aftermath(events[op.id], mails)]
            /\ events' = [events EXCEPT ![op.id].exists = FALSE]
    /\ UNCHANGED <<groups, broadcasts, started, inboxSide>>

\* fs.unlink of deleteevent calls back: with err, res.send(err).
UnlinkResult(err) ==
    /\ "unlink" \in op.pending
    /\ op' = [(IF err THEN SendAgain(op) ELSE op) EXCEPT
                 !.pending = @ \ {"unlink"}]
    /\ UNCHANGED <<events, groups, broadcasts, started, inboxSide>>

\* The sending of the emails of deleteevent ends: when it fails,
\* res.status(500).end().
MailResult(err) ==
    /\ "mail" \in op.pending
    /\ op' = [(IF err THEN SendAgain(op) ELSE op) EXCEPT
                 !.pending = @ \ {"mail"}]
    /\ UNCHANGED <<events, groups, broadcasts, started, inboxSide>>

\* The events the job's query returns (those that ended before too_old),
\* in the order of the store.
oldEvents ==
    SelectSeq(<<"E1", "E2">>, LAMBDA e : events[e].exists /\ events[e].expired)

\* The event has ActivityPub fields: both snapshots are set.
HasActivityPub(event) ==
    Truthy(event.activityPubActor) /\ Truthy(event.activityPubEvent)

\* The forEach callback throws for the event: one of the two JSON.parse does.
JobThrows(event) ==
    /\ HasActivityPub(event)
    /\ JsonParseThrows(event.activityPubActor)
          \/ JsonParseThrows(event.activityPubEvent)

\* The events the forEach calls its callback for: a throw ends the loop.
ReachedBy(list) ==
    {list[i] : i \in {j \in 1..Len(list) :
                         \A h \in 1..(j - 1) : ~JobThrows(events[list[h]])}}

\* Where the forEach leaves an event: not found, not reached, thrown for,
\* its first broadcast started, or (without ActivityPub fields) its removal
\* issued.
JobStep(e) ==
    IF e \notin Range(oldEvents) THEN "none"
    ELSE IF e \notin ReachedBy(oldEvents) THEN "skipped"
    ELSE IF JobThrows(events[e]) THEN "threw"
    ELSE IF HasActivityPub(events[e]) THEN "broadcasting"
    ELSE "removing"

\* The job, had it started the two broadcasts of an event side by side.
JobObjectsBoth == {"actor", "event"}

\* The objects whose Delete the forEach callback broadcasts itself: the
\* broadcast of the event object is started by the callback of the first.
JobObjects == {"actor"}

\* The scheduled job up to the end of its forEach.
DeleteOldEvents ==
    /\ Begin
    /\ op' = [NoOp EXCEPT !.kind = "job", !.pc = "running",
                          !.job = [e \in LocalActors |-> JobStep(e)]]
    /\ broadcasts' =
          [k \in {<<e, o>> : e \in {x \in LocalActors : JobStep(x) = "broadcasting"},
                             o \in JobObjects}
              |-> NewBroadcast("Delete", followers[k[1]])]
    /\ UNCHANGED <<events, groups, inboxSide>>

\* The callback of the job's actor broadcast: it starts the broadcast of
\* the event object.
JobActorCallback(bs, e) ==
    broadcastDeleteMessage(bs, <<e, "event">>, followers[e])

\* The callback of the job's event broadcast: deleteEventFromDB(event._id).
JobEventCallback(c, e) == [c EXCEPT !.job[e] = "removing"]

\* Event.remove of deleteEventFromDB ends: the event is gone, or the error
\* is logged.
deleteEventFromDB(e, err) ==
    /\ op.kind = "job"
    /\ op.job[e] = "removing"
    /\ IF err
       THEN /\ op' = [op EXCEPT !.job[e] = "failed"]
            /\ UNCHANGED events
       ELSE /\ op' = [op EXCEPT !.job[e] = "removed", !.removed = @ \cup {e}]
            /\ events' = [events EXCEPT ![e].exists = FALSE]
    /\ UNCHANGED <<groups, broadcasts, started, inboxSide>>

\* POST /deleteeventgroup/:eventGroupID/:editToken up to EventGroup.deleteOne.
DeleteEventGroup(g, token) ==
    LET c == [NoOp EXCEPT !.kind = "deleteeventgroup", !.id = g, !.token = token]
    IN  /\ Begin
        /\ op' = IF ~groups[g].exists \/ groups[g].editToken # token
                 THEN Send(c, SendStatus)
                 ELSE [c EXCEPT !.pc = "deleteOne"]
        /\ UNCHANGED <<events, groups, broadcasts, inboxSide>>

\* EventGroup.deleteOne ends: with err the callback answers with the error,
\* otherwise the group is gone and Event.updateOne is issued.
EventGroupDeleted(err) ==
    /\ op.kind = "deleteeventgroup"
    /\ op.pc = "deleteOne"
    /\ IF err
       THEN /\ op' = Send(op, SendStatus)
            /\ UNCHANGED groups
       ELSE /\ op' = [op EXCEPT !.pc = "updateOne", !.removed = {op.id}]
            /\ groups' = [groups EXCEPT ![op.id].exists = FALSE]
    /\ UNCHANGED <<events, broadcasts, started, inboxSide>>

\* The events Event.updateOne changes: the first that matches.
FirstLinked(g) ==
    LET linked == SelectSeq(<<"E1", "E2">>,
                      LAMBDA e : events[e].exists /\ events[e].eventGroup = g)
    IN  IF linked = <<>> THEN {} ELSE {linked[1]}

\* Event.updateOne ends: the event is unlinked and the answer is the
\* redirect, or the error is answered.
EventsUnlinked(err) ==
    /\ op.kind = "deleteeventgroup"
    /\ op.pc = "updateOne"
    /\ IF err
       THEN /\ op' = Send(op, SendStatus)
            /\ UNCHANGED events
       ELSE /\ op' = Send(op, RedirectStatus)
            /\ events' = [e \in LocalActors |->
                            IF e \in FirstLinked(op.id)
                            THEN [events[e] EXCEPT !.eventGroup = "null"]
                            ELSE events[e]]
    /\ UNCHANGED <<groups, broadcasts, started, inboxSide>>

\* The comment handlers, had they broadcast whatever the save came to.
CommentBroadcastsAlways(bs, e, err) ==
    broadcastCreateMessage(bs, <<e, "note">>, followers[e])

\* The broadcasts after event.save() of a comment or a reply ended: the
\* Note is broadcast in the then branch of the save only.
CommentBroadcasts(bs, e, err) ==
    IF err THEN bs ELSE broadcastCreateMessage(bs, <<e, "note">>, followers[e])

\* POST /post/comment/:eventID and POST /post/reply/:eventID/:commentID up
\* to event.save(): without the event (none stored, or the lookup called
\* back with err) the callback returns and nothing is answered; a reply to
\* a comment the event lacks throws in the callback.
PostComment(kind, e, parent, err) ==
    LET c == [NoOp EXCEPT !.kind = kind, !.id = e]
    IN  /\ Begin
        /\ parent => events[e].comments > 0
        /\ op' = IF err \/ ~events[e].exists THEN [c EXCEPT !.pc = "hung"]
                 ELSE IF kind = "reply" /\ ~parent THEN [c EXCEPT !.pc = "crashed"]
                 ELSE [c EXCEPT !.pc = "saving"]
        /\ UNCHANGED <<events, groups, broadcasts, inboxSide>>

\* event.save() ends: in its then branch the Note is broadcast and the
\* redirect is sent at once; in its catch branch the error is answered.
SaveResult(err) ==
    /\ op.kind \in {"comment", "reply"}
    /\ op.pc = "saving"
    /\ IF err
       THEN /\ op' = Send(op, SendStatus)
            /\ UNCHANGED events
       ELSE /\ op' = [Send(op, RedirectStatus) EXCEPT !.saved = TRUE]
            /\ events' = [events EXCEPT ![op.id].comments = @ + 1]
    /\ broadcasts' = CommentBroadcasts(broadcasts, op.id, err)
    /\ UNCHANGED <<groups, started, inboxSide>>

\* The delivery to follower f of broadcast k ends; a delivery is made once.
Deliver(k, f, outcome) ==
    /\ broadcasts[k].status[f] = "pending"
    /\ broadcasts' = [broadcasts EXCEPT ![k].status[f] = outcome,
                                        ![k].attempts[f] = @ + 1]
    /\ UNCHANGED <<events, groups, op, started, inboxSide>>

\* Broadcast k is over and calls the callback its caller gave it.
Report(k) ==
    LET over == [broadcasts EXCEPT ![k] = Reported(@)]
        e    == k[1]
    IN  /\ ~broadcasts[k].reported
        /\ AllResolved(broadcasts[k])
        /\ IF op.kind = "deleteevent"
           THEN /\ op' = DeleteEventCallback(op)
                /\ broadcasts' = over
           ELSE IF op.kind = "job" /\ k[2] = "actor"
           THEN /\ op' = op
                /\ broadcasts' = JobActorCallback(over, e)
           ELSE IF op.kind = "job"
           THEN /\ op' = JobEventCallback(op, e)
                /\ broadcasts' = over
           ELSE /\ op' = op
                /\ broadcasts' = over
        /\ UNCHANGED <<events, groups, started, inboxSide>>

\* Nothing of the handler run is left to happen.
Terminal(c) ==
    /\ c.kind = "job" \/ c.pc \in {"done", "hung", "crashed"}
    /\ c.pending = {}
    /\ \A e \in LocalActors : c.job[e] \notin {"broadcasting", "removing"}
    /\ \A k \in DOMAIN broadcasts : broadcasts[k].reported

\* The handler run is over.
Finish ==
    /\ op.kind # "none"
    /\ Terminal(op)
    /\ op' = NoOp
    /\ broadcasts' = NoBroadcasts
    /\ UNCHANGED <<events, groups, started, inboxSide>>

\* The follower lists E1 may have.
FollowerLists ==
    {<<>>, <<ActorOf("K1")>>, <<ActorOf("K1"), ActorOf("K2")>>}

\* A store of two events: E1 ended long ago, with any snapshots and any of
\* the follower lists; E2 is as created, with one follower.
CrudInit ==
    /\ is_federated = TRUE
    /\ inbox = [s \in Slots |-> Idle]
    /\ handled = 0
    /\ \E list \in FollowerLists :
          followers = [a \in LocalActors |->
                          IF a = "E1" THEN list ELSE <<ActorOf("K2")>>]
    /\ \E actor \in Snapshots, object \in Snapshots, expired \in BOOLEAN :
          events = [e \in LocalActors |->
                       IF e = "E1" THEN StoredEvent(e, actor, object, TRUE)
                       ELSE StoredEvent(e, "json", "json", expired)]
    /\ groups = [g \in Groups |-> StoredGroup(g)]
    /\ op = NoOp
    /\ broadcasts = NoBroadcasts
    /\ started = 0
    /\ page = NoPage
    /\ rsvp = [s \in Slots |-> NoRsvp]

CrudNext ==
    \/ \E e \in LocalActors, token \in Tokens : DeleteEvent(e, token)
    \/ \E err \in BOOLEAN, mails \in BOOLEAN : DeleteOneResult(err, mails)
    \/ \E err \in BOOLEAN : UnlinkResult(err)
    \/ \E err \in BOOLEAN : MailResult(err)
    \/ DeleteOldEvents
    \/ \E e \in LocalActors, err \in BOOLEAN : deleteEventFromDB(e, err)
    \/ \E g \in Groups, token \in Tokens : DeleteEventGroup(g, token)
    \/ \E err \in BOOLEAN : EventGroupDeleted(err)
    \/ \E err \in BOOLEAN : EventsUnlinked(err)
    \/ \E kind \in {"comment", "reply"}, e \in LocalActors,
          parent \in BOOLEAN, err \in BOOLEAN :
          PostComment(kind, e, parent, err)
    \/ \E err \in BOOLEAN : SaveResult(err)
    \/ \E k \in DOMAIN broadcasts :
          \E f \in Range(broadcasts[k].to), outcome \in Outcomes :
             Deliver(k, f, outcome)
    \/ \E k \in DOMAIN broadcasts : Report(k)
    \/ Finish

CrudSpec == CrudInit /\ [][CrudNext]_vars

\* Every delivery ends (each has a timeout), the store answers every
\* query and a callback that is due is run: no run stops half way.
CrudFairSpec == CrudSpec /\ WF_vars(CrudNext)

-----------------------------------------------------------------------------
(* Properties of the handlers that delete and comment                      *)

\* The running handler has issued the removal of event e from the store.
RemovalIssued(e) ==
    \/ op.kind = "deleteevent" /\ op.id = e /\ op.pc = "deleteOne"
    \/ op.kind = "job" /\ op.job[e] = "removing"
    \/ op.kind \in {"deleteevent", "job"} /\ e \in op.removed

\* The broadcasts started about entity x.
About(x) == {k \in DOMAIN broadcasts : k[1] = x}

\* A Delete about e went to the follower list of e and has called back,
\* and no broadcast about e is still under way.
DeleteCalledBack(e) ==
    /\ \E k \in About(e) :
          /\ broadcasts[k].activity = "Delete"
          /\ broadcasts[k].to = followers[e]
    /\ \A k \in About(e) : broadcasts[k].reported

\* No Delete is under way about an event whose removal has been issued.
NoBroadcastAfterRemoval ==
    \A k \in DOMAIN broadcasts :
        broadcasts[k].activity = "Delete" /\ ~broadcasts[k].reported
        => events[k[1]].exists /\ ~RemovalIssued(k[1])

C12_JobChain ==
    op.kind = "job" =>
    \A e \in LocalActors :
        HasActivityPub(events[e]) =>
            /\ <<e, "event">> \in DOMAIN broadcasts
                  => /\ <<e, "actor">> \in DOMAIN broadcasts
                     /\ broadcasts[<<e, "actor">>].reported
            /\ RemovalIssued(e)
                  => /\ <<e, "event">> \in DOMAIN broadcasts
                     /\ broadcasts[<<e, "event">>].reported

C12_Witness ==
    /\ op.kind = "job"
    /\ op.job["E1"] = "removed"
    /\ op.job["E2"] = "broadcasting"
    /\ <<"E2", "event">> \notin DOMAIN broadcasts
    /\ <<"E1", "event">> \in DOMAIN broadcasts
    /\ broadcasts[<<"E1", "event">>].report.failed = 2

\* Event.deleteOne of the running deleteevent failed.
StoreFailed ==
    /\ op.pc = "done"
    /\ op.status = SendStatus
    /\ <<op.id, "actor">> \in DOMAIN broadcasts

\* C13: a deleteevent request with the right edit token ends with the event
\* removed (the store permitting), whatever the followers and whatever the
\* stored actor snapshot.
C13_RightTokenRemoves ==
    ( /\ op.kind = "deleteevent"
      /\ op.pc = "done"
      /\ op.token = events[op.id].editToken
      /\ ~StoreFailed )
    => ~events[op.id].exists

\* The Delete of the running deleteevent, about an event with followers
\* A and B (in this order on the list), is under way or over.
DeletingWithTwo ==
    /\ op.kind = "deleteevent"
    /\ <<op.id, "actor">> \in DOMAIN broadcasts
    /\ Len(broadcasts[<<op.id, "actor">>].to) = 2

\* The delivery of that Delete to the i-th follower ended with `outcomes`.
DeliveryEnded(i, outcomes) ==
    LET b == broadcasts[<<op.id, "actor">>]
    IN  b.status[b.to[i]] \in outcomes /\ b.attempts[b.to[i]] = 1

\* C14: when an event with followers A and B is deleted, the Delete is
\* attempted against both inboxes before the event is removed; when the
\* delivery to A times out or is rejected, the delivery to B is attempted
\* all the same and the event is removed afterwards (the store permitting).
C14_BothAttemptedThenRemoved ==
    /\ [](DeletingWithTwo /\ RemovalIssued(op.id)
            => DeliveryEnded(1, Outcomes) /\ DeliveryEnded(2, Outcomes))
    /\ (DeletingWithTwo /\ DeliveryEnded(1, {"failed"}))
          ~> ( /\ DeletingWithTwo
               /\ DeliveryEnded(1, {"failed"})
               /\ DeliveryEnded(2, Outcomes)
               /\ op.pc = "done"
               /\ ~events[op.id].exists \/ StoreFailed )

C14_Witness ==
    /\ DeletingWithTwo
    /\ DeliveryEnded(1, {"failed"})
    /\ DeliveryEnded(2, {"sent"})
    /\ op.removed = {op.id}
    /\ ~events[op.id].exists

\* The followers of broadcast b whose delivery failed.
Unreachable(b) == {f \in Range(b.to) : b.status[f] = "failed"}

\* C15: a broadcast to N followers of which K are unreachable attempts the
\* delivery to each follower exactly once, calls back only when all N
\* deliveries have ended, reports N-K successes and K failures, and raises
\* no exception in its caller.
C15_OneAttemptEach ==
    \A k \in DOMAIN broadcasts :
        LET b == broadcasts[k]
        IN  /\ \A f \in Range(b.to) :
                  b.attempts[f] = IF b.status[f] = "pending" THEN 0 ELSE 1
            /\ b.reported =>
                  /\ \A f \in Range(b.to) : b.attempts[f] = 1
                  /\ b.report.failed = Cardinality(Unreachable(b))
                  /\ b.report.sent = Len(b.to) - Cardinality(Unreachable(b))
            /\ op.pc # "crashed"

C15_Witness ==
    \E k \in DOMAIN broadcasts :
        /\ broadcasts[k].reported
        /\ Len(broadcasts[k].to) = 2
        /\ Cardinality(Unreachable(broadcasts[k])) = 1
        /\ broadcasts[k].report = [sent |-> 1, failed |-> 1]

\* C19: a handler that removes an event or an event group has broadcast a
\* Delete about it to its followers, and a handler that has stored a comment
\* or a reply has broadcast the Note.
C19_EveryRemovalBroadcast ==
    /\ \A x \in op.removed :
          \E k \in About(x) : broadcasts[k].activity = "Delete"
    /\ op.saved =>
          \E k \in About(op.id) : broadcasts[k].activity = "Create"

\* The Note about the event of the running comment handler is broadcast.
NoteBroadcast == <<op.id, "note">> \in DOMAIN broadcasts

\* C20: a comment or a reply is broadcast only once it has been saved (a
\* failed save broadcasts nothing), and by the time the broadcast exists the
\* 302 has been sent, whatever becomes of the deliveries.
C20_BroadcastAfterSave ==
    op.kind \in {"comment", "reply"} =>
        /\ NoteBroadcast => /\ op.saved
                            /\ events[op.id].comments > 0
                            /\ op.status = RedirectStatus
                            /\ op.sent = 1
        /\ op.pc = "done" /\ ~op.saved
              => ~NoteBroadcast /\ op.status = SendStatus
        /\ op.saved => NoteBroadcast

C20_Witness ==
    /\ op.kind = "reply"
    /\ NoteBroadcast
    /\ op.status = RedirectStatus
    /\ LET b == broadcasts[<<op.id, "note">>]
       IN  /\ Len(b.to) = 2
           /\ b.status[b.to[1]] = "pending"
           /\ b.status[b.to[2]] = "failed"

-----------------------------------------------------------------------------
(* The pages of an event and of an event group                             *)

\* Number of media types an Accept header lists at most.
MaxAccept == 2

\* Media types of an Accept header.
MediaTypes ==
    {"application/activity+json", "application/ld+json", "text/html", "*/*",
     "application/json"}

\* Accept headers as the preference list of the request: its media types,
\* the most preferred first; the empty list is a request without the header.
AcceptHeaders == UNION {[1..n -> MediaTypes] : n \in 0..MaxAccept}

\* The federation-specific content types.
ActivityPubTypes == {"application/activity+json", "application/ld+json"}

\* The media types that an HTML page satisfies.
HtmlTypes == {"text/html", "*/*"}

\* The places of the header that list one of `types`.
Listed(accept, types) == {i \in 1..Len(accept) : accept[i] \in types}

\* acceptsActivityPub(req): the header lists a federation type at a rank at
\* or above the HTML types it lists, or lists no HTML type at all.
acceptsActivityPub(accept) ==
    \/ Listed(accept, HtmlTypes) = {}
    \/ \E i \in Listed(accept, ActivityPubTypes) :
          \A j \in Listed(accept, HtmlTypes) : i <= j

\* activityPubContentType.
activityPubContentType == "application/ld+json"

\* What the query string of a page request holds as e.
QueryTokens == Tokens \cup {"none"}

\* res.status(404).render("404", ...).
NotFound(req) ==
    [pc |-> "done", req |-> req, branch |-> "404", status |-> 404,
     contentType |-> "text/html",
     body |-> [kind |-> "404", of |-> "", editToken |-> "null",
               eventGroupEditToken |-> "null"]]

\* JSON.parse(event.activityPubActor || "{}"): the actor document written
\* at the creation of the event, or the empty object.
ParsedActor(e, event) ==
    [kind |-> IF Truthy(event.activityPubActor) THEN "actor" ELSE "{}",
     of   |-> IF Truthy(event.activityPubActor) THEN e ELSE "",
     editToken |-> "null", eventGroupEditToken |-> "null"]

\* res.render("event", ...) with jsonData: the edit token of the event is
\* passed when the query holds it, that of its group whenever the event has
\* one (populate("eventGroup") found the document).
RenderEvent(req, event) ==
    LET editingEnabled == req.e = event.editToken
    IN  [pc |-> "done", req |-> req, branch |-> "html", status |-> 200,
         contentType |-> "text/html",
         body |-> [kind |-> "event", of |-> req.id,
                   editToken |-> IF editingEnabled THEN event.editToken
                                 ELSE "null",
                   eventGroupEditToken |->
                       IF /\ event.eventGroup \in Groups
                          /\ groups[event.eventGroup].exists
                       THEN groups[event.eventGroup].editToken
                       ELSE "null"]]

\* The event page, had it no machine-readable branch.
RenderAlways(req, event, federated) == RenderEvent(req, event)

\* GET /:eventID from the test of acceptsActivityPub(req) on: the actor
\* document under the ActivityPub content type, or the HTML page; a
\* snapshot that does not parse throws and the catch answers 404.
EventResponse(req, event, federated) ==
    IF ~federated THEN RenderEvent(req, event)
    ELSE IF Truthy(event.activityPubActor)
            /\ JsonParseThrows(event.activityPubActor)
         THEN [NotFound(req) EXCEPT !.branch = "activitypub"]
         ELSE [pc |-> "done", req |-> req, branch |-> "activitypub",
               status |-> 200, contentType |-> activityPubContentType,
               body |-> ParsedActor(req.id, event)]

\* GET /:eventID.
GetEvent(e, accept, token) ==
    LET req == [route |-> "event", id |-> e, accept |-> accept, e |-> token]
    IN  /\ page.pc = "idle"
        /\ IF ~events[e].exists
           THEN /\ page' = NotFound(req)
                /\ UNCHANGED events
           ELSE /\ page' = EventResponse(req, events[e],
                                         acceptsActivityPub(accept))
                /\ events' = [events EXCEPT ![e].firstLoad = FALSE]
        /\ UNCHANGED <<is_federated, followers, inbox, handled,
                       groups, op, broadcasts, started, rsvp>>

\* GET /group/:eventGroupID: the HTML page of the group, whatever the
\* request accepts.
GetEventGroup(g, accept, token) ==
    LET req == [route |-> "group", id |-> g, accept |-> accept, e |-> token]
        eventGroup == groups[g]
        editingEnabled == token = eventGroup.editToken
    IN  /\ page.pc = "idle"
        /\ IF ~eventGroup.exists
           THEN /\ page' = NotFound(req)
                /\ UNCHANGED groups
           ELSE /\ page' =
                     [pc |-> "done", req |-> req, branch |-> "html",
                      status |-> 200, contentType |-> "text/html",
                      body |-> [kind |-> "eventgroup", of |-> g,
                                editToken |-> IF editingEnabled
                                              THEN eventGroup.editToken
                                              ELSE "null",
                                eventGroupEditToken |-> "null"]]
                /\ groups' = [groups EXCEPT ![g].firstLoad = FALSE]
        /\ UNCHANGED <<is_federated, followers, inbox, handled,
                       events, op, broadcasts, started, rsvp>>

\* The response is out and the next request may come.
PageSent ==
    /\ page.pc = "done"
    /\ page' = NoPage
    /\ UNCHANGED <<is_federated, followers, inbox, handled,
                   events, groups, op, broadcasts, started, rsvp>>

\* A store with E1 holding any actor snapshot, E2 and G1 there or not.
PageInit ==
    /\ is_federated = TRUE
    /\ followers = [a \in LocalActors |-> <<>>]
    /\ inbox = [s \in Slots |-> Idle]
    /\ handled = 0
    /\ \E actor \in Snapshots, there \in BOOLEAN :
          events = [e \in LocalActors |->
                       IF e = "E1" THEN StoredEvent(e, actor, "json", TRUE)
                       ELSE [StoredEvent(e, "json", "json", FALSE)
                                EXCEPT !.exists = there]]
    /\ \E there \in BOOLEAN :
          groups = [g \in Groups |-> [StoredGroup(g) EXCEPT !.exists = there]]
    /\ op = NoOp
    /\ broadcasts = NoBroadcasts
    /\ started = 0
    /\ page = NoPage
    /\ rsvp = [s \in Slots |-> NoRsvp]

PageNext ==
    \/ \E e \in LocalActors, accept \in AcceptHeaders, token \in QueryTokens :
          GetEvent(e, accept, token)
    \/ \E g \in Groups, accept \in AcceptHeaders, token \in QueryTokens :
          GetEventGroup(g, accept, token)
    \/ PageSent

PageSpec == PageInit /\ [][PageNext]_vars

-----------------------------------------------------------------------------
(* Properties of the pages                                                 *)

\* The header asks for an ActivityPub type, at whatever rank.
AsksForActivityPub(accept) == Listed(accept, ActivityPubTypes) # {}

\* The header lists no HTML type, or an ActivityPub type before the first
\* HTML type.
PrefersActivityPub(accept) ==
    LET html == Listed(accept, HtmlTypes)
    IN  \/ html = {}
        \/ \E i \in Listed(accept, ActivityPubTypes) :
              i < CHOOSE j \in html : \A h \in html : j <= h

\* The request answered is a GET of the URL of an event of the store.
EventPage ==
    /\ page.pc = "done"
    /\ page.req.route = "event"
    /\ events[page.req.id].exists

\* The GET of an event takes the machine-readable branch exactly when
\* `wanted`: on that branch the answer is the stored actor document (the
\* empty object when none is stored) under the ActivityPub content type,
\* unless the stored text fails to parse; otherwise it is the HTML page.
BranchesOn(wanted) ==
    /\ (page.branch = "activitypub") = wanted
    /\ page.branch = "activitypub" /\ page.status = 200
          => /\ page.contentType = activityPubContentType
             /\ page.body = ParsedActor(page.req.id, events[page.req.id])
    /\ page.branch # "activitypub"
          => /\ page.contentType = "text/html"
             /\ page.body.kind = "event"

ActorPage ==
    /\ page.pc = "done"
    /\ \/ EventPage /\ events[page.req.id].activityPubActor = "json"
       \/ page.req.route = "group" /\ groups[page.req.id].exists

\* C18: the URL of every actor, event or event group, answers a request
\* that negotiates the federation content type with the actor document
\* under the ActivityPub content type.
C18_EveryActorUrl ==
    ActorPage /\ acceptsActivityPub(page.req.accept)
    => /\ page.contentType = activityPubContentType
       /\ page.body.kind = "actor"
       /\ page.body.of = page.req.id

-----------------------------------------------------------------------------
(* The federation switch of the inbox                                      *)

\* C24: when the configuration sets is_federated to false, a request to
\* the inbox is answered 404 with no key fetched and no call of
\* processInbox.
C24_NotFederatedNotFound ==
    ~is_federated =>
        \A s \in Slots :
            inbox[s].pc # "idle"
            => /\ inbox[s].pc = "done"
               /\ inbox[s].status = 404
               /\ inbox[s].fetches = 0
               /\ ~inbox[s].processed

-----------------------------------------------------------------------------
(* Further properties of the handlers that delete and comment              *)

\* The handler run is a deleteevent whose token is not the event's.
WrongToken(c) ==
    /\ c.kind = "deleteevent"
    /\ c.token # events[c.id].editToken

\* C23: a deleteevent request whose edit token differs from the stored
\* token of the event starts no Delete broadcast and leaves the store as it
\* is; the route removes an event only in a run whose token equalled the
\* stored one.
C23_WrongTokenKeepsEvent ==
    /\ [][WrongToken(op') => events' = events /\ broadcasts' = NoBroadcasts]_vars
    /\ [](op.kind = "deleteevent" /\ op.removed # {}
            => op.token = events[op.id].editToken /\ op.removed = {op.id})

C23_Witness ==
    /\ WrongToken(op)
    /\ op.pc = "done"
    /\ op.status = SendStatus
    /\ events[op.id].exists
    /\ events[op.id].activityPubActor = "json"
    /\ followers[op.id] # <<>>
    /\ broadcasts = NoBroadcasts

\* C26: in a run of the scheduled job every expired event is removed
\* whatever becomes of the others: when the job has nothing left to do,
\* each event it found whose own snapshots parse is gone from the store
\* (the store permitting), even when another event's snapshot did not
\* parse or a broadcast failed.
C26_JobRemovesEachEvent ==
    op.kind = "job" /\ Terminal(op) =>
        \A e \in LocalActors :
            ( /\ op.job[e] \notin {"none", "failed"}
              /\ ~JobThrows(events[e]) )
            => ~events[e].exists

\* C27: a POST to /post/comment/:eventID is answered exactly once, also
\* when no event has the id and when the lookup fails: when nothing of the
\* handler is left to happen, one response has been sent.
C27_CommentAnswered ==
    op.kind = "comment" /\ Terminal(op) => op.sent = 1

\* C28: the deleteevent handler sends at most one response for a request,
\* whatever happens: an error of the store deletion, an error of the image
\* unlink after the redirect, a failure of the emails after the redirect.
C28_DeleteEventAnswersOnce ==
    op.kind = "deleteevent" => op.sent <= 1

-----------------------------------------------------------------------------
(* Further properties of the pages                                         *)

\* C25: a GET of an event URL that is answered with the actor document
\* leaves the stored event as it was, its firstLoad flag included.
C25_FederatedGetChangesNothing ==
    [][ ( /\ page'.pc = "done"
          /\ page.pc = "idle"
          /\ page'.branch = "activitypub"
          /\ page'.status = 200 )
        => events' = events ]_vars

\* The request answered is a GET of an event that was answered with the
\* HTML page of the event.
RenderedEvent ==
    /\ EventPage
    /\ page.body.kind = "event"

\* C29: the data rendered into the HTML page of an event holds an edit
\* token, the event's or its group's, only when the e of the query is the
\* stored edit token of the event: without it the token fields are null,
\* whatever the stored tokens.
C29_TokensOnlyToEditors ==
    RenderedEvent /\ page.req.e # events[page.req.id].editToken
    => /\ page.body.editToken = "null"
       /\ page.body.eventGroupEditToken = "null"

-----------------------------------------------------------------------------
(* Attendees: provision, attend, unattend and the one-click unattend link  *)

MaxRsvp == 4

\* The attendeeNumber of a request body; 0 stands for a body without one.
AttendeeNumbers == 0 .. 2

\* The removalPassword of a request body: 0 stands for a body without
\* one, -1 for one that no attendee holds, the others are held.
RemovalPasswords ==
    {0, -1} \cup UNION {{a.removalPassword : a \in Range(events[e].attendees)} :
                           e \in LocalActors}

\* a.status === "attending" ? a.number || 1 : 0
HeadCount(a) ==
    IF a.status = "attending"
    THEN (IF a.number = 0 THEN 1 ELSE a.number)
    ELSE 0

RECURSIVE reduce(_)
\* event.attendees.reduce((acc, a) => acc + ..., 0)
reduce(attendees) ==
    IF attendees = <<>> THEN 0
    ELSE HeadCount(Head(attendees)) + reduce(Tail(attendees))

\* event.maxAttendees minus the head counts of those attending.
freeSpots(event) == event.maxAttendees - reduce(event.attendees)

\* req.body.attendeeNumber > freeSpots; a missing number compares false.
Exceeds(attendeeNumber, free) == attendeeNumber # 0 /\ attendeeNumber > free

\* $pull {attendees: {removalPassword}}: the list without those holding it.
PullPassword(attendees, removalPassword) ==
    SelectSeq(attendees, LAMBDA a : a.removalPassword # removalPassword)

\* $pull {attendees: {_id: attendeeID}}: the list without those of the id.
PullId(attendees, attendeeID) ==
    SelectSeq(attendees, LAMBDA a : a.id # attendeeID)

\* $set on attendees.$: the first attendee with the password attends.
SetAttending(attendees, removalPassword, attendeeNumber) ==
    LET hits == {i \in DOMAIN attendees :
                    attendees[i].removalPassword = removalPassword}
    IN  IF hits = {} THEN attendees
        ELSE LET first == CHOOSE i \in hits : \A j \in hits : i <= j
             IN  [attendees EXCEPT ![first].status = "attending",
                                   ![first].number = attendeeNumber]

\* The User-Agent headers sent: none, a browser, and fediverse servers.
NoAgent == <<>>
BrowserAgent == <<"M", "o", "z", "i", "l", "l", "a", "/", "5">>
MastodonAgent == <<"(", "M", "a", "s", "t", "o", "d", "o", "n", "/", "4", ")">>
PleromaAgent == <<"P", "L", "E", "R", "O", "M", "A">>
LowerAgent == <<"m", "a", "s", "t", "o", "d", "o", "n">>
UserAgents ==
    {NoAgent, BrowserAgent, MastodonAgent, PleromaAgent, LowerAgent}

UpperCase ==
    <<"A", "B", "C", "D", "E", "F", "G", "H", "I", "J", "K", "L", "M",
      "N", "O", "P", "Q", "R", "S", "T", "U", "V", "W", "X", "Y", "Z">>
LowerCase ==
    <<"a", "b", "c", "d", "e", "f", "g", "h", "i", "j", "k", "l", "m",
      "n", "o", "p", "q", "r", "s", "t", "u", "v", "w", "x", "y", "z">>

\* A comparison that keeps the letter case of the header.
KeepCase(text) == text

\* String.prototype.toLowerCase
toLowerCase(text) ==
    [i \in DOMAIN text |->
        IF \E k \in DOMAIN UpperCase : UpperCase[k] = text[i]
        THEN LowerCase[CHOOSE k \in DOMAIN UpperCase : UpperCase[k] = text[i]]
        ELSE text[i]]

\* String.prototype.includes
includes(text, word) ==
    \E i \in 0 .. (Len(text) - Len(word)) :
        SubSeq(text, i + 1, i + Len(word)) = word

\* The User-Agent is there and names Mastodon or Pleroma.
FromFediverse(userAgent) ==
    /\ userAgent # <<>>
    /\ \/ includes(toLowerCase(userAgent),
                   <<"m", "a", "s", "t", "o", "d", "o", "n">>)
       \/ includes(toLowerCase(userAgent),
                   <<"p", "l", "e", "r", "o", "m", "a">>)

\* A request arrives at a free slot.
Taken(s, kind, e) ==
    [NoRsvp EXCEPT !.pc = "done", !.kind = kind, !.id = e]

\* The response is out.
Answered(r, status) == [r EXCEPT !.pc = "done", !.status = status]

\* POST /attendee/provision: a provisioned attendee with a new removal
\* password is pushed and the event saved.
Provision(s, e) ==
    LET event == events[e]
        newAttendee == [id |-> started + 1, removalPassword |-> started + 1,
                        status |-> "provisioned", number |-> 0]
    IN  /\ rsvp[s].pc = "idle"
        /\ started < MaxRsvp
        /\ started' = started + 1
        /\ IF ~event.exists
           THEN /\ rsvp' = [rsvp EXCEPT
                              ![s] = Answered(Taken(s, "provision", e), 404)]
                /\ UNCHANGED events
           ELSE /\ rsvp' = [rsvp EXCEPT
                              ![s] = Answered(Taken(s, "provision", e), 200)]
                /\ events' = [events EXCEPT
                                ![e].attendees = Append(@, newAttendee)]
        /\ UNCHANGED <<is_federated, followers, inbox, handled,
                       groups, op, broadcasts, page>>

\* POST /attendevent/:eventID up to the update: the event is read, the
\* attendee looked up and the free spots compared with the number asked.
AttendEvent(s, e, removalPassword, attendeeNumber) ==
    LET event == events[e]
        req == [Taken(s, "attendevent", e) EXCEPT
                   !.removalPassword = removalPassword,
                   !.attendeeNumber = attendeeNumber]
        attendee == {i \in DOMAIN event.attendees :
                        event.attendees[i].removalPassword = removalPassword}
    IN  /\ rsvp[s].pc = "idle"
        /\ started < MaxRsvp
        /\ started' = started + 1
        /\ rsvp' = [rsvp EXCEPT ![s] =
              IF removalPassword = 0 THEN Answered(req, 500)
              ELSE IF ~event.exists THEN Answered(req, 404)
              ELSE IF attendee = {} THEN Answered(req, 404)
              ELSE IF /\ event.hasMaxAttendees
                      /\ Exceeds(attendeeNumber, freeSpots(event))
                   THEN Answered(req, 403)
              ELSE [req EXCEPT !.pc = "update"]]
        /\ UNCHANGED <<is_federated, followers, inbox, handled,
                       events, groups, op, broadcasts, page>>

\* Event.findOneAndUpdate of attendevent and its callbacks.
AttendUpdate(s, err) ==
    LET r == rsvp[s]
    IN  /\ r.pc = "update"
        /\ IF err
           THEN /\ rsvp' = [rsvp EXCEPT ![s] = Answered(r, SendStatus)]
                /\ UNCHANGED events
           ELSE /\ rsvp' = [rsvp EXCEPT ![s] = Answered(r, RedirectStatus)]
                /\ events' = [events EXCEPT ![r.id].attendees =
                                 SetAttending(@, r.removalPassword,
                                              r.attendeeNumber)]
        /\ UNCHANGED <<is_federated, followers, inbox, handled,
                       groups, op, broadcasts, started, page>>

\* POST /unattendevent/:eventID: the attendees with the password are pulled.
UnattendEvent(s, e, removalPassword, err) ==
    LET req == [Taken(s, "unattendevent", e) EXCEPT
                   !.removalPassword = removalPassword]
    IN  /\ rsvp[s].pc = "idle"
        /\ started < MaxRsvp
        /\ started' = started + 1
        /\ IF removalPassword = 0
           THEN /\ rsvp' = [rsvp EXCEPT ![s] = Answered(req, 500)]
                /\ UNCHANGED events
           ELSE IF err
           THEN /\ rsvp' = [rsvp EXCEPT ![s] = Answered(req, SendStatus)]
                /\ UNCHANGED events
           ELSE /\ rsvp' = [rsvp EXCEPT ![s] = Answered(req, RedirectStatus)]
                /\ events' = [events EXCEPT
                                ![e].attendees =
                                   PullPassword(@, removalPassword)]
        /\ UNCHANGED <<is_federated, followers, inbox, handled,
                       groups, op, broadcasts, page>>

\* GET /oneclickunattendevent/:eventID/:attendeeID: a fediverse server
\* that previews the link is answered at once, anyone else pulls the
\* attendee with the id.
OneClickUnattendEvent(s, e, attendeeID, userAgent, err) ==
    LET req == [Taken(s, "oneclickunattendevent", e) EXCEPT
                   !.attendeeID = attendeeID, !.userAgent = userAgent]
    IN  /\ rsvp[s].pc = "idle"
        /\ started < MaxRsvp
        /\ started' = started + 1
        /\ IF FromFediverse(userAgent)
           THEN /\ rsvp' = [rsvp EXCEPT ![s] = Answered(req, 200)]
                /\ UNCHANGED events
           ELSE IF err
           THEN /\ rsvp' = [rsvp EXCEPT ![s] = Answered(req, SendStatus)]
                /\ UNCHANGED events
           ELSE /\ rsvp' = [rsvp EXCEPT ![s] = Answered(req, RedirectStatus)]
                /\ events' = [events EXCEPT
                                ![e].attendees = PullId(@, attendeeID)]
        /\ UNCHANGED <<is_federated, followers, inbox, handled,
                       groups, op, broadcasts, page>>

\* The response is out and the slot takes the next request.
RsvpSent(s) ==
    /\ rsvp[s].pc = "done"
    /\ rsvp' = [rsvp EXCEPT ![s] = NoRsvp]
    /\ UNCHANGED <<is_federated, followers, inbox, handled,
                   events, groups, op, broadcasts, started, page>>

\* E1 takes one attendee at most, E2 is not in the store.
AttendInit ==
    /\ is_federated = TRUE
    /\ followers = [a \in LocalActors |-> <<>>]
    /\ inbox = [s \in Slots |-> Idle]
    /\ handled = 0
    /\ events = [e \in LocalActors |->
                    [StoredEvent(e, "json", "json", FALSE)
                        EXCEPT !.exists = (e = "E1")]]
    /\ groups = [g \in Groups |-> StoredGroup(g)]
    /\ op = NoOp
    /\ broadcasts = NoBroadcasts
    /\ started = 0
    /\ page = NoPage
    /\ rsvp = [s \in Slots |-> NoRsvp]

AttendNext ==
    \E s \in Slots :
        \/ \E e \in LocalActors : Provision(s, e)
        \/ \E e \in LocalActors, removalPassword \in RemovalPasswords,
              attendeeNumber \in AttendeeNumbers :
              AttendEvent(s, e, removalPassword, attendeeNumber)
        \/ \E err \in BOOLEAN : AttendUpdate(s, err)
        \/ \E e \in LocalActors, removalPassword \in RemovalPasswords,
              err \in BOOLEAN :
              UnattendEvent(s, e, removalPassword, err)
        \/ \E e \in LocalActors, attendeeID \in RemovalPasswords,
              userAgent \in UserAgents, err \in BOOLEAN :
              OneClickUnattendEvent(s, e, attendeeID, userAgent, err)
        \/ RsvpSent(s)

AttendSpec == AttendInit /\ [][AttendNext]_vars

\* C21: the head counts of the attendees attending an event with a maximum
\* never add up to more than the maximum, whatever provision, attendevent
\* and unattendevent requests were served and however they interleaved.
C21_NeverOverbooked ==
    \A e \in LocalActors :
        events[e].hasMaxAttendees =>
            reduce(events[e].attendees) <= events[e].maxAttendees

\* The User-Agent headers that contain mastodon or pleroma in some case.
BotAgents == {MastodonAgent, PleromaAgent, LowerAgent}

\* C22: a one-click unattend request whose User-Agent contains mastodon
\* or pleroma in any letter case is answered 200 and leaves every attendee
\* list as it was; a request with another User-Agent, or none, leaves the
\* list without the attendee of the id, or as it was when the store fails.
C22_PreviewsUnattendNobody ==
    [][\A s \in Slots :
          ( /\ rsvp[s].pc = "idle"
            /\ rsvp'[s].pc = "done"
            /\ rsvp'[s].kind = "oneclickunattendevent" )
          => IF rsvp'[s].userAgent \in BotAgents
             THEN rsvp'[s].status = 200 /\ events' = events
             ELSE \/ /\ rsvp'[s].status = RedirectStatus
                     /\ \A i \in DOMAIN events'[rsvp'[s].id].attendees :
                           events'[rsvp'[s].id].attendees[i].id
                              # rsvp'[s].attendeeID
                     /\ \A e \in LocalActors :
                           Len(events'[e].attendees) >=
                              Len(events[e].attendees)
                                 - (IF e = rsvp'[s].id THEN 1 ELSE 0)
                  \/ /\ rsvp'[s].status = SendStatus
                     /\ events' = events]_vars

\* A Mastodon server fetched the link of an attendee who is still listed.
C22_Witness ==
    \E s \in Slots :
        /\ rsvp[s].pc = "done"
        /\ rsvp[s].kind = "oneclickunattendevent"
        /\ rsvp[s].userAgent = MastodonAgent
        /\ rsvp[s].status = 200
        /\ \E i \in DOMAIN events[rsvp[s].id].attendees :
              events[rsvp[s].id].attendees[i].id = rsvp[s].attendeeID

====
